---- MODULE Spec2Model ----
(***************************************************************************)
(* Model of src/io/rpio.go: the rPIO controller (Start, Poll, StopPolling, *)
(* Stop, RegisterEdgeDetection, RemoveEdgeDetectionRegistration,           *)
(* UpdatePollFreq) and the rpioPoller goroutine (poll).                    *)
(*                                                                         *)
(* The controller is driven by one serialized caller.  The four channels   *)
(* of rpioPoller are unbuffered: a send is a rendezvous with a poll        *)
(* goroutine sitting at its select, so every sending method is split at    *)
(* the send into the part before it, the rendezvous, and the part after.   *)
(***************************************************************************)
EXTENDS Integers, Sequences, FiniteSets, TLC

\* ---- bounds -------------------------------------------------------------
NumPins == 2
MaxDur == 2
MaxLoops == 2
MaxInflight == 1

\* ---- program constants ----------------------------------------------------
\* DefaultPollFreq, in units of 100ms
DefaultPollFreq == 1

Pins == 1..NumPins
Edges == {"RiseEdge", "FallEdge"}
Callbacks == {"cb1", "cb2"}
\* the <<edge, callback>> pairs the caller registers
Registrations == {<<"RiseEdge", "cb1">>, <<"FallEdge", "cb2">>}
Durations == 1..MaxDur
LoopIds == 1..MaxLoops

\* ---- error values (fmt.Errorf messages) -----------------------------------
Ok == "nil"
ErrNotOpen == "GPIO is not yet open"
ErrNotPolling == "not yet polling GPIO"
ErrAlreadyRegistered == "pin is already registered"
ErrNotRegistered == "pin is not yet registered"
ErrPollingNotStarted == "polling has not yet started"

VARIABLES
    open,            \* rPIO.open
    polling,         \* rPIO.polling
    registeredPins,  \* rPIO.registeredPins: the set of keys of the map
    pollerPins,      \* rpioPoller.registeredPins: pin -> pinRegistration or NoReg
    tickerD,         \* period of rpioPoller.ticker
    tickerC,         \* TRUE when a tick is waiting in ticker.C (capacity 1)
    timer,           \* time since the ticker was created, reset or last fired
    sinceReset,      \* history: time since NewTicker or the last Reset, up to tickerD
    loops,           \* the poll goroutines: slot -> [pc, val]
    inflight,        \* callback goroutines still running, counted up to MaxInflight
    detect,          \* hardware: edge mode programmed by pin.Detect
    callerPc,        \* where the caller is inside a controller method
    call,            \* the controller call in progress
    event,           \* what the last step made observable: a return or a tick
    status,          \* history: per pin, what the caller has been told
    config,          \* history: per pin, the registration sent and not removed since
    lastOp,          \* history: the controller method that returned in the last step
    progress         \* history: how far the caller has followed Scenario

vars == <<open, polling, registeredPins, pollerPins, tickerD, tickerC, loops,
          inflight, detect, callerPc, call, event, status, config, lastOp, progress,
          timer, sinceReset>>

\* ---- values ---------------------------------------------------------------
\* absent map entry of rpioPoller.registeredPins
NoReg == [edge |-> "NoEdge", callback |-> "nil"]

\* pinRegistration without its key
Reg(edge, cb) == [edge |-> edge, callback |-> cb]

\* keys of rpioPoller.registeredPins
Keys(m) == {p \in Pins : m[p] # NoReg}

NoVal == [pin |-> 0, edge |-> "NoEdge", callback |-> "nil", d |-> 0]

DeadLoop == [pc |-> "dead", val |-> NoVal]

\* goroutines running poll()
Alive == {i \in LoopIds : loops[i].pc # "dead"}

\* goroutines blocked in the select of poll()
AtSelect == {i \in LoopIds : loops[i].pc = "select"}

NoCall == [op |-> "none", pin |-> 0, edge |-> "NoEdge", callback |-> "nil", d |-> 0,
           wasOpen |-> FALSE, wasPolling |-> FALSE, wasRegistered |-> FALSE,
           wasStatus |-> "never"]

NoDispatch == [p \in Pins |-> << >>]

NoEvent == [type |-> "none", op |-> "none", again |-> FALSE, pin |-> 0,
            edge |-> "NoEdge", callback |-> "nil", err |-> Ok,
            wasOpen |-> FALSE, wasPolling |-> FALSE, wasRegistered |-> FALSE,
            wasStatus |-> "never", detected |-> {}, dispatched |-> NoDispatch]

\* the call record of a method entered now
NewCall(op, pin, edge, cb, d) ==
    [op |-> op, pin |-> pin, edge |-> edge, callback |-> cb, d |-> d,
     wasOpen |-> open, wasPolling |-> polling,
     wasRegistered |-> (pin \in registeredPins),
     wasStatus |-> IF pin \in Pins THEN status[pin] ELSE "never"]

\* the methods that open and close the device and start and stop polling
Lifecycle == {"Start", "Poll", "StopPolling", "Stop"}

\* the event of call c returning err; again tells a lifecycle method called
\* right after it returned
Return(c, err) ==
    [type |-> "return", op |-> c.op, again |-> (c.op \in Lifecycle /\ lastOp = c.op), pin |-> c.pin,
     edge |-> c.edge, callback |-> c.callback, err |-> err,
     wasOpen |-> c.wasOpen, wasPolling |-> c.wasPolling,
     wasRegistered |-> c.wasRegistered, wasStatus |-> c.wasStatus,
     detected |-> {}, dispatched |-> NoDispatch]

\* the calls of the scenario Start, Poll, Register(L1, Rising, cb1),
\* Remove(L1), StopPolling, Stop, made on a fresh client
Scenario ==
    << [op |-> "Start", pin |-> 0, edge |-> "NoEdge", callback |-> "nil"],
       [op |-> "Poll", pin |-> 0, edge |-> "NoEdge", callback |-> "nil"],
       [op |-> "RegisterEdgeDetection", pin |-> 1, edge |-> "RiseEdge", callback |-> "cb1"],
       [op |-> "RemoveEdgeDetectionRegistration", pin |-> 1, edge |-> "NoEdge", callback |-> "nil"],
       [op |-> "StopPolling", pin |-> 0, edge |-> "NoEdge", callback |-> "nil"],
       [op |-> "Stop", pin |-> 0, edge |-> "NoEdge", callback |-> "nil"] >>

\* progress after a step that ends in event e: the number of calls of
\* Scenario that have returned, one more once a RegisterEdgeDetection has
\* returned after them, and -1 once the caller has made any other call
Track(p, e) ==
    IF e.type # "return" THEN p
    ELSE IF p \in 0..(Len(Scenario) - 1)
              /\ [op |-> e.op, pin |-> e.pin, edge |-> e.edge, callback |-> e.callback]
                    = Scenario[p + 1]
         THEN p + 1
    ELSE IF p = Len(Scenario) /\ e.op = "RegisterEdgeDetection"
         THEN p + 1
    ELSE -1

\* the method whose return is event e, "none" when e is no return
LastReturned(e) ==
    IF e.type = "return" THEN e.op ELSE "none"

\* the process is running: no panic has aborted it
Running == callerPc # "panic"

Idle == callerPc = "idle"

Init ==
    /\ open = FALSE
    /\ polling = FALSE
    /\ registeredPins = {}
    /\ pollerPins = [p \in Pins |-> NoReg]
    /\ tickerD = DefaultPollFreq
    /\ tickerC = FALSE
    /\ loops = [i \in LoopIds |-> DeadLoop]
    /\ inflight = 0
    /\ detect = [p \in Pins |-> "NoEdge"]
    /\ callerPc = "idle"
    /\ call = NoCall
    /\ event = NoEvent
    /\ status = [p \in Pins |-> "never"]
    /\ config = [p \in Pins |-> NoReg]
    /\ lastOp = "none"
    /\ progress = 0
    /\ timer = 0
    /\ sinceReset = 0

\* ---- controller: lifecycle ----------------------------------------------
\* Start: no-op when open; otherwise rpio.Open(), which succeeds or panics
Start ==
    /\ Idle
    /\ LET c == NewCall("Start", 0, "NoEdge", "nil", 0) IN
       /\ \/ /\ open
             /\ callerPc' = "idle"
             /\ event' = Return(c, Ok)
             /\ UNCHANGED open
          \/ /\ ~open
             /\ open' = TRUE
             /\ callerPc' = "idle"
             /\ event' = Return(c, Ok)
          \/ /\ ~open
             /\ callerPc' = "panic"
             /\ event' = NoEvent
             /\ UNCHANGED open
       /\ call' = IF callerPc' = "idle" THEN NoCall ELSE c
    /\ UNCHANGED <<polling, registeredPins, pollerPins, tickerD, tickerC, loops,
                   detect, status, config>>
    /\ progress' = Track(progress, event')
    /\ UNCHANGED inflight
    /\ lastOp' = LastReturned(event')
    /\ UNCHANGED <<timer, sinceReset>>

\* the slot of the goroutine started by `go r.poller.poll()`
FreeSlot == CHOOSE i \in LoopIds : loops[i].pc = "dead" /\ \A j \in LoopIds : loops[j].pc = "dead" => i <= j

\* Poll without the `if r.polling` early return
Poll_NoGuard ==
    /\ Idle
    /\ event' = Return(NewCall("Poll", 0, "NoEdge", "nil", 0), Ok)
    /\ call' = NoCall
    /\ \E i \in LoopIds : loops[i].pc = "dead"
    /\ loops' = [loops EXCEPT ![FreeSlot] = [pc |-> "select", val |-> NoVal]]
    /\ polling' = TRUE
    /\ UNCHANGED <<open, registeredPins, pollerPins, tickerD, tickerC,
                   detect, callerPc, status, config>>
    /\ progress' = Track(progress, event')
    /\ UNCHANGED inflight
    /\ lastOp' = LastReturned(event')
    /\ UNCHANGED <<timer, sinceReset>>

\* Poll: no-op when polling; otherwise starts poll() and sets polling
Poll ==
    /\ Idle
    /\ event' = Return(NewCall("Poll", 0, "NoEdge", "nil", 0), Ok)
    /\ call' = NoCall
    /\ IF polling
       THEN UNCHANGED <<loops, polling>>
       ELSE /\ \E i \in LoopIds : loops[i].pc = "dead"
            /\ loops' = [loops EXCEPT ![FreeSlot] = [pc |-> "select", val |-> NoVal]]
            /\ polling' = TRUE
    /\ UNCHANGED <<open, registeredPins, pollerPins, tickerD, tickerC,
                   detect, callerPc, status, config>>
    /\ progress' = Track(progress, event')
    /\ UNCHANGED inflight
    /\ lastOp' = LastReturned(event')
    /\ UNCHANGED <<timer, sinceReset>>

\* StopPolling that clears r.polling without signalling the poll goroutine
StopPolling_NoSend ==
    /\ Idle
    /\ callerPc' = "idle"
    /\ event' = Return(NewCall("StopPolling", 0, "NoEdge", "nil", 0), Ok)
    /\ call' = NoCall
    /\ polling' = FALSE
    /\ UNCHANGED <<open, registeredPins, pollerPins, tickerD, tickerC,
                   loops, detect, status, config>>
    /\ progress' = Track(progress, event')
    /\ UNCHANGED inflight
    /\ lastOp' = LastReturned(event')
    /\ UNCHANGED <<timer, sinceReset>>

\* StopPolling up to the send on poller.stop
StopPolling ==
    /\ Idle
    /\ LET c == NewCall("StopPolling", 0, "NoEdge", "nil", 0) IN
       /\ IF ~polling
          THEN /\ callerPc' = "idle"
               /\ event' = Return(c, Ok)
          ELSE /\ callerPc' = "send_stop"
               /\ event' = NoEvent
       /\ call' = IF callerPc' = "idle" THEN NoCall ELSE c
    /\ UNCHANGED <<open, polling, registeredPins, pollerPins, tickerD, tickerC,
                   loops, detect, status, config>>
    /\ progress' = Track(progress, event')
    /\ UNCHANGED inflight
    /\ lastOp' = LastReturned(event')
    /\ UNCHANGED <<timer, sinceReset>>

\* Stop without `r.open = false` when it did not have to stop polling
Stop_StaysOpen ==
    /\ Idle
    /\ LET c == NewCall("Stop", 0, "NoEdge", "nil", 0) IN
       /\ \/ /\ ~open
             /\ callerPc' = "idle"
             /\ event' = Return(c, Ok)
             /\ UNCHANGED open
          \/ /\ open /\ polling
             /\ callerPc' = "send_stop"
             /\ event' = NoEvent
             /\ UNCHANGED open
          \/ /\ open /\ ~polling
             /\ UNCHANGED open
             /\ callerPc' = "idle"
             /\ event' = Return(c, Ok)
          \/ /\ open /\ ~polling
             /\ callerPc' = "panic"
             /\ event' = NoEvent
             /\ UNCHANGED open
       /\ call' = IF callerPc' = "idle" THEN NoCall ELSE c
    /\ UNCHANGED <<polling, registeredPins, pollerPins, tickerD, tickerC, loops,
                   detect, status, config>>
    /\ progress' = Track(progress, event')
    /\ UNCHANGED inflight
    /\ lastOp' = LastReturned(event')
    /\ UNCHANGED <<timer, sinceReset>>

\* Stop that closes the device without calling StopPolling first
Stop_SkipsStopPolling ==
    /\ Idle
    /\ LET c == NewCall("Stop", 0, "NoEdge", "nil", 0) IN
       /\ \/ /\ ~open
             /\ callerPc' = "idle"
             /\ event' = Return(c, Ok)
             /\ UNCHANGED open
          \/ /\ open
             /\ open' = FALSE
             /\ callerPc' = "idle"
             /\ event' = Return(c, Ok)
          \/ /\ open
             /\ callerPc' = "panic"
             /\ event' = NoEvent
             /\ UNCHANGED open
       /\ call' = IF callerPc' = "idle" THEN NoCall ELSE c
    /\ UNCHANGED <<polling, registeredPins, pollerPins, tickerD, tickerC, loops,
                   detect, status, config>>
    /\ progress' = Track(progress, event')
    /\ UNCHANGED inflight
    /\ lastOp' = LastReturned(event')
    /\ UNCHANGED <<timer, sinceReset>>

\* Stop up to the send on poller.stop of the StopPolling it calls; without
\* that call, all of Stop: rpio.Close(), which succeeds or panics
Stop ==
    /\ Idle
    /\ LET c == NewCall("Stop", 0, "NoEdge", "nil", 0) IN
       /\ \/ /\ ~open
             /\ callerPc' = "idle"
             /\ event' = Return(c, Ok)
             /\ UNCHANGED open
          \/ /\ open /\ polling
             /\ callerPc' = "send_stop"
             /\ event' = NoEvent
             /\ UNCHANGED open
          \/ /\ open /\ ~polling
             /\ open' = FALSE
             /\ callerPc' = "idle"
             /\ event' = Return(c, Ok)
          \/ /\ open /\ ~polling
             /\ callerPc' = "panic"
             /\ event' = NoEvent
             /\ UNCHANGED open
       /\ call' = IF callerPc' = "idle" THEN NoCall ELSE c
    /\ UNCHANGED <<polling, registeredPins, pollerPins, tickerD, tickerC, loops,
                   detect, status, config>>
    /\ progress' = Track(progress, event')
    /\ UNCHANGED inflight
    /\ lastOp' = LastReturned(event')
    /\ UNCHANGED <<timer, sinceReset>>

\* StopPollingSent that waits for the running callbacks before it goes on
StopPollingSent_AwaitsCallbacks ==
    /\ callerPc = "sent_stop"
    /\ inflight = 0
    /\ polling' = FALSE
    /\ callerPc' = "idle"
    /\ open' = IF call.op = "Stop" THEN FALSE ELSE open
    /\ event' = Return(call, Ok)
    /\ call' = NoCall
    /\ UNCHANGED <<registeredPins, pollerPins, tickerD, tickerC, loops,
                   detect, status, config>>
    /\ progress' = Track(progress, event')
    /\ UNCHANGED inflight
    /\ lastOp' = LastReturned(event')
    /\ UNCHANGED <<timer, sinceReset>>

\* StopPolling after its send was accepted: polling = false; inside Stop,
\* then rpio.Close(), which succeeds or panics, and open = false
StopPollingSent ==
    /\ callerPc = "sent_stop"
    /\ polling' = FALSE
    /\ \/ /\ call.op = "StopPolling"
          /\ callerPc' = "idle"
          /\ event' = Return(call, Ok)
          /\ UNCHANGED open
       \/ /\ call.op = "Stop"
          /\ open' = FALSE
          /\ callerPc' = "idle"
          /\ event' = Return(call, Ok)
       \/ /\ call.op = "Stop"
          /\ callerPc' = "panic"
          /\ event' = NoEvent
          /\ UNCHANGED open
    /\ call' = IF callerPc' = "idle" THEN NoCall ELSE call
    /\ UNCHANGED <<registeredPins, pollerPins, tickerD, tickerC, loops,
                   detect, status, config>>
    /\ progress' = Track(progress, event')
    /\ UNCHANGED inflight
    /\ lastOp' = LastReturned(event')
    /\ UNCHANGED <<timer, sinceReset>>

\* ---- controller: registrations -------------------------------------------
\* RegisterError without the lookup in r.registeredPins
RegisterError_NoLookup(pin) ==
    IF ~open THEN ErrNotOpen
    ELSE IF ~polling THEN ErrNotPolling
    ELSE Ok

\* RegisterError with the polling check before the open check
RegisterError_PollingFirst(pin) ==
    IF ~polling THEN ErrNotPolling
    ELSE IF ~open THEN ErrNotOpen
    ELSE IF pin \in registeredPins THEN ErrAlreadyRegistered
    ELSE Ok

\* the precondition checks of RegisterEdgeDetection, in the order of the code
RegisterError(pin) ==
    IF ~open THEN ErrNotOpen
    ELSE IF ~polling THEN ErrNotPolling
    ELSE IF pin \in registeredPins THEN ErrAlreadyRegistered
    ELSE Ok

\* RegisterEdgeDetection that calls pin.Detect(edge) before its checks
RegisterEdgeDetection_DetectFirst(pin, edge, cb) ==
    /\ Idle
    /\ LET c == NewCall("RegisterEdgeDetection", pin, edge, cb, 0)
           err == RegisterError(pin) IN
       /\ detect' = [detect EXCEPT ![pin] = edge]
       /\ IF err # Ok
          THEN /\ callerPc' = "idle"
               /\ event' = Return(c, err)
               /\ UNCHANGED <<registeredPins, status, config>>
          ELSE /\ registeredPins' = registeredPins \cup {pin}
               /\ callerPc' = "send_newPin"
               /\ event' = NoEvent
               /\ status' = [status EXCEPT ![pin] = "registering"]
               /\ config' = [config EXCEPT ![pin] = Reg(edge, cb)]
       /\ call' = IF callerPc' = "idle" THEN NoCall ELSE c
    /\ UNCHANGED <<open, polling, pollerPins, tickerD, tickerC, loops>>
    /\ progress' = Track(progress, event')
    /\ UNCHANGED inflight
    /\ lastOp' = LastReturned(event')
    /\ UNCHANGED <<timer, sinceReset>>

\* RegisterEdgeDetection up to the send on poller.newPin
RegisterEdgeDetection(pin, edge, cb) ==
    /\ Idle
    /\ LET c == NewCall("RegisterEdgeDetection", pin, edge, cb, 0)
           err == RegisterError(pin) IN
       /\ IF err # Ok
          THEN /\ callerPc' = "idle"
               /\ event' = Return(c, err)
               /\ UNCHANGED <<registeredPins, detect, status, config>>
          ELSE /\ registeredPins' = registeredPins \cup {pin}
               /\ detect' = [detect EXCEPT ![pin] = edge]
               /\ callerPc' = "send_newPin"
               /\ event' = NoEvent
               /\ status' = [status EXCEPT ![pin] = "registering"]
               /\ config' = [config EXCEPT ![pin] = Reg(edge, cb)]
       /\ call' = IF callerPc' = "idle" THEN NoCall ELSE c
    /\ UNCHANGED <<open, polling, pollerPins, tickerD, tickerC, loops>>
    /\ progress' = Track(progress, event')
    /\ UNCHANGED inflight
    /\ lastOp' = LastReturned(event')
    /\ UNCHANGED <<timer, sinceReset>>

\* RegisterEdgeDetection after its send was accepted: return nil
RegisterEdgeDetectionSent ==
    /\ call' = NoCall
    /\ callerPc = "sent_newPin"
    /\ callerPc' = "idle"
    /\ event' = Return(call, Ok)
    /\ status' = [status EXCEPT ![call.pin] = "registered"]
    /\ UNCHANGED <<open, polling, registeredPins, pollerPins, tickerD, tickerC,
                   loops, detect, config>>
    /\ progress' = Track(progress, event')
    /\ UNCHANGED inflight
    /\ lastOp' = LastReturned(event')
    /\ UNCHANGED <<timer, sinceReset>>

\* RemoveError without the lookup in r.registeredPins
RemoveError_NoLookup(pin) ==
    IF ~open THEN ErrNotOpen
    ELSE IF ~polling THEN ErrNotPolling
    ELSE Ok

\* the precondition checks of RemoveEdgeDetectionRegistration, in the order
\* of the code
RemoveError(pin) ==
    IF ~open THEN ErrNotOpen
    ELSE IF ~polling THEN ErrNotPolling
    ELSE IF pin \notin registeredPins THEN ErrNotRegistered
    ELSE Ok

\* RegistryDelete that deletes nothing
RegistryDelete_Keeps(registry, pin) ==
    registry

\* delete(p.registeredPins, registrationToRemove)
RegistryDelete(registry, pin) ==
    [registry EXCEPT ![pin] = NoReg]

\* RemoveEdgeDetectionRegistration that also deletes the entry of the
\* poller's map itself
RemoveEdgeDetectionRegistration_Direct(pin) ==
    /\ Idle
    /\ LET c == NewCall("RemoveEdgeDetectionRegistration", pin, "NoEdge", "nil", 0)
           err == RemoveError(pin) IN
       /\ IF err # Ok
          THEN /\ callerPc' = "idle"
               /\ event' = Return(c, err)
               /\ UNCHANGED <<registeredPins, pollerPins, detect, status, config>>
          ELSE /\ registeredPins' = registeredPins \ {pin}
               /\ pollerPins' = RegistryDelete(pollerPins, pin)
               /\ detect' = [detect EXCEPT ![pin] = "NoEdge"]
               /\ callerPc' = "send_removePin"
               /\ event' = NoEvent
               /\ status' = [status EXCEPT ![pin] = "removing"]
               /\ config' = [config EXCEPT ![pin] = NoReg]
       /\ call' = IF callerPc' = "idle" THEN NoCall ELSE c
    /\ UNCHANGED <<open, polling, tickerD, tickerC, loops>>
    /\ progress' = Track(progress, event')
    /\ UNCHANGED inflight
    /\ lastOp' = LastReturned(event')
    /\ UNCHANGED <<timer, sinceReset>>

\* RemoveEdgeDetectionRegistration up to the send on poller.removePin
RemoveEdgeDetectionRegistration(pin) ==
    /\ Idle
    /\ LET c == NewCall("RemoveEdgeDetectionRegistration", pin, "NoEdge", "nil", 0)
           err == RemoveError(pin) IN
       /\ IF err # Ok
          THEN /\ callerPc' = "idle"
               /\ event' = Return(c, err)
               /\ UNCHANGED <<registeredPins, detect, status, config>>
          ELSE /\ registeredPins' = registeredPins \ {pin}
               /\ detect' = [detect EXCEPT ![pin] = "NoEdge"]
               /\ callerPc' = "send_removePin"
               /\ event' = NoEvent
               /\ status' = [status EXCEPT ![pin] = "removing"]
               /\ config' = [config EXCEPT ![pin] = NoReg]
       /\ call' = IF callerPc' = "idle" THEN NoCall ELSE c
    /\ UNCHANGED <<open, polling, pollerPins, tickerD, tickerC, loops>>
    /\ progress' = Track(progress, event')
    /\ UNCHANGED inflight
    /\ lastOp' = LastReturned(event')
    /\ UNCHANGED <<timer, sinceReset>>

\* RemoveEdgeDetectionRegistration after its send was accepted: return nil
RemoveEdgeDetectionRegistrationSent ==
    /\ call' = NoCall
    /\ callerPc = "sent_removePin"
    /\ callerPc' = "idle"
    /\ event' = Return(call, Ok)
    /\ status' = [status EXCEPT ![call.pin] = "removed"]
    /\ UNCHANGED <<open, polling, registeredPins, pollerPins, tickerD, tickerC,
                   loops, detect, config>>
    /\ progress' = Track(progress, event')
    /\ UNCHANGED inflight
    /\ lastOp' = LastReturned(event')
    /\ UNCHANGED <<timer, sinceReset>>

\* the precondition check of UpdatePollFreq
UpdatePollFreqError ==
    IF ~open THEN ErrPollingNotStarted ELSE Ok

\* UpdatePollFreq up to the send on poller.newPollFreq
UpdatePollFreq(d) ==
    /\ Idle
    /\ LET c == NewCall("UpdatePollFreq", 0, "NoEdge", "nil", d)
           err == UpdatePollFreqError IN
       /\ IF err # Ok
          THEN /\ callerPc' = "idle"
               /\ event' = Return(c, err)
          ELSE /\ callerPc' = "send_newPollFreq"
               /\ event' = NoEvent
       /\ call' = IF callerPc' = "idle" THEN NoCall ELSE c
    /\ UNCHANGED <<open, polling, registeredPins, pollerPins, tickerD, tickerC,
                   loops, detect, status, config>>
    /\ progress' = Track(progress, event')
    /\ UNCHANGED inflight
    /\ lastOp' = LastReturned(event')
    /\ UNCHANGED <<timer, sinceReset>>

\* UpdatePollFreq after its send was accepted: return nil
UpdatePollFreqSent ==
    /\ call' = NoCall
    /\ callerPc = "sent_newPollFreq"
    /\ callerPc' = "idle"
    /\ event' = Return(call, Ok)
    /\ UNCHANGED <<open, polling, registeredPins, pollerPins, tickerD, tickerC,
                   loops, detect, status, config>>
    /\ progress' = Track(progress, event')
    /\ UNCHANGED inflight
    /\ lastOp' = LastReturned(event')
    /\ UNCHANGED <<timer, sinceReset>>

\* ---- poller goroutine: poll() ----------------------------------------------
\* the message the caller is offering on a channel
Offered == [pin |-> call.pin, edge |-> call.edge, callback |-> call.callback, d |-> call.d]

\* Dispatch without the test of pin.EdgeDetected()
Dispatch_Unconditional(registry, detected) ==
    [p \in Pins |-> IF registry[p] # NoReg
                    THEN << <<registry[p].callback, registry[p].edge>> >>
                    ELSE << >>]

\* the `go registration.callback(registration.edge)` statements of one tick:
\* per pin, the <<callback, edge>> invocations started
Dispatch(registry, detected) ==
    [p \in Pins |-> IF registry[p] # NoReg /\ p \in detected
                    THEN << <<registry[p].callback, registry[p].edge>> >>
                    ELSE << >>]

\* the number of go statements executed for dispatched
RECURSIVE Started(_, _)
Started(dispatched, pins) ==
    IF pins = {} THEN 0
    ELSE LET p == CHOOSE q \in pins : TRUE
         IN Len(dispatched[p]) + Started(dispatched, pins \ {p})

\* the running callbacks after n more were started; the count stops at
\* MaxInflight, which stands for "MaxInflight or more"
Spawn(running, n) ==
    IF running + n > MaxInflight THEN MaxInflight ELSE running + n

\* case <-p.ticker.C: sample every registered pin and start the callbacks;
\* detected is the set of pins for which pin.EdgeDetected() answers true
\* during this tick, as the hardware decides
pollTick(i, detected) ==
    /\ Running
    /\ loops[i].pc = "select"
    /\ tickerC
    /\ tickerC' = FALSE
    /\ event' = [NoEvent EXCEPT !.type = "tick", !.detected = detected,
                                !.dispatched = Dispatch(pollerPins, detected)]
    /\ inflight' = Spawn(inflight, Started(Dispatch(pollerPins, detected), Pins))
    /\ UNCHANGED <<open, polling, registeredPins, pollerPins, tickerD, loops,
                   detect, callerPc, call, status, config>>
    /\ progress' = Track(progress, event')
    /\ lastOp' = LastReturned(event')
    /\ UNCHANGED <<timer, sinceReset>>

\* case newRegistration := <-p.newPin: the receive
pollRecvNewPin(i) ==
    /\ Running
    /\ loops[i].pc = "select"
    /\ callerPc = "send_newPin"
    /\ loops' = [loops EXCEPT ![i] = [pc |-> "newPin", val |-> Offered]]
    /\ callerPc' = "sent_newPin"
    /\ event' = NoEvent
    /\ UNCHANGED <<open, polling, registeredPins, pollerPins, tickerD, tickerC,
                   detect, call, status, config>>
    /\ progress' = Track(progress, event')
    /\ UNCHANGED inflight
    /\ lastOp' = LastReturned(event')
    /\ UNCHANGED <<timer, sinceReset>>

\* RegistryInsert that stores nothing
RegistryInsert_Drops(registry, v) ==
    registry

\* p.registeredPins[newRegistration.pin] = newRegistration
RegistryInsert(registry, v) ==
    [registry EXCEPT ![v.pin] = Reg(v.edge, v.callback)]

\* case newRegistration := <-p.newPin: the body
pollNewPin(i) ==
    /\ Running
    /\ loops[i].pc = "newPin"
    /\ pollerPins' = RegistryInsert(pollerPins, loops[i].val)
    /\ loops' = [loops EXCEPT ![i] = [pc |-> "select", val |-> NoVal]]
    /\ event' = NoEvent
    /\ UNCHANGED <<open, polling, registeredPins, tickerD, tickerC,
                   detect, callerPc, call, status, config>>
    /\ progress' = Track(progress, event')
    /\ UNCHANGED inflight
    /\ lastOp' = LastReturned(event')
    /\ UNCHANGED <<timer, sinceReset>>

\* case registrationToRemove := <-p.removePin: the receive
pollRecvRemovePin(i) ==
    /\ Running
    /\ loops[i].pc = "select"
    /\ callerPc = "send_removePin"
    /\ loops' = [loops EXCEPT ![i] = [pc |-> "removePin", val |-> Offered]]
    /\ callerPc' = "sent_removePin"
    /\ event' = NoEvent
    /\ UNCHANGED <<open, polling, registeredPins, pollerPins, tickerD, tickerC,
                   detect, call, status, config>>
    /\ progress' = Track(progress, event')
    /\ UNCHANGED inflight
    /\ lastOp' = LastReturned(event')
    /\ UNCHANGED <<timer, sinceReset>>

\* case registrationToRemove := <-p.removePin: the body
pollRemovePin(i) ==
    /\ Running
    /\ loops[i].pc = "removePin"
    /\ pollerPins' = RegistryDelete(pollerPins, loops[i].val.pin)
    /\ loops' = [loops EXCEPT ![i] = [pc |-> "select", val |-> NoVal]]
    /\ event' = NoEvent
    /\ UNCHANGED <<open, polling, registeredPins, tickerD, tickerC,
                   detect, callerPc, call, status, config>>
    /\ progress' = Track(progress, event')
    /\ UNCHANGED inflight
    /\ lastOp' = LastReturned(event')
    /\ UNCHANGED <<timer, sinceReset>>

\* case newPollFreq := <-p.newPollFreq: the receive
pollRecvNewPollFreq(i) ==
    /\ Running
    /\ loops[i].pc = "select"
    /\ callerPc = "send_newPollFreq"
    /\ loops' = [loops EXCEPT ![i] = [pc |-> "newPollFreq", val |-> Offered]]
    /\ callerPc' = "sent_newPollFreq"
    /\ event' = NoEvent
    /\ UNCHANGED <<open, polling, registeredPins, pollerPins, tickerD, tickerC,
                   detect, call, status, config>>
    /\ progress' = Track(progress, event')
    /\ UNCHANGED inflight
    /\ lastOp' = LastReturned(event')
    /\ UNCHANGED <<timer, sinceReset>>

\* case newPollFreq := <-p.newPollFreq: the body, p.ticker.Reset(newPollFreq),
\* which restarts the timer with the new period.  Whether a tick already
\* waiting in ticker.C survives the Reset depends on the Go release the
\* program is built with: both outcomes are allowed.
pollNewPollFreq(i) ==
    /\ Running
    /\ loops[i].pc = "newPollFreq"
    /\ tickerD' = loops[i].val.d
    /\ tickerC' \in {tickerC, FALSE}
    /\ loops' = [loops EXCEPT ![i] = [pc |-> "select", val |-> NoVal]]
    /\ event' = NoEvent
    /\ UNCHANGED <<open, polling, registeredPins, pollerPins,
                   detect, callerPc, call, status, config>>
    /\ progress' = Track(progress, event')
    /\ UNCHANGED inflight
    /\ lastOp' = LastReturned(event')
    /\ timer' = 0
    /\ sinceReset' = 0

\* pollStop with a `break` that leaves the select only, not the loop
pollStop_KeepsLooping(i) ==
    /\ Running
    /\ loops[i].pc = "select"
    /\ callerPc = "send_stop"
    /\ callerPc' = "sent_stop"
    /\ event' = NoEvent
    /\ UNCHANGED <<open, polling, registeredPins, pollerPins, tickerD, tickerC,
                   loops, detect, call, status, config>>
    /\ progress' = Track(progress, event')
    /\ UNCHANGED inflight
    /\ lastOp' = LastReturned(event')
    /\ UNCHANGED <<timer, sinceReset>>

\* pollStop in a select that looks at its other cases only when no tick is
\* waiting
pollStop_AfterTicks(i) ==
    /\ Running
    /\ loops[i].pc = "select"
    /\ ~tickerC
    /\ callerPc = "send_stop"
    /\ loops' = [loops EXCEPT ![i] = DeadLoop]
    /\ callerPc' = "sent_stop"
    /\ event' = NoEvent
    /\ UNCHANGED <<open, polling, registeredPins, pollerPins, tickerD, tickerC,
                   detect, call, status, config>>
    /\ progress' = Track(progress, event')
    /\ UNCHANGED inflight
    /\ lastOp' = LastReturned(event')
    /\ UNCHANGED <<timer, sinceReset>>

\* case <-p.stop: break pollLoop, and poll() returns.  Nothing is read or
\* written between the receive and the end of the goroutine.
pollStop(i) ==
    /\ Running
    /\ loops[i].pc = "select"
    /\ callerPc = "send_stop"
    /\ loops' = [loops EXCEPT ![i] = DeadLoop]
    /\ callerPc' = "sent_stop"
    /\ event' = NoEvent
    /\ UNCHANGED <<open, polling, registeredPins, pollerPins, tickerD, tickerC,
                   detect, call, status, config>>
    /\ progress' = Track(progress, event')
    /\ UNCHANGED inflight
    /\ lastOp' = LastReturned(event')
    /\ UNCHANGED <<timer, sinceReset>>

\* ---- environment -----------------------------------------------------------
\* the runtime timer of time.NewTicker puts a tick in ticker.C; a tick that
\* finds the channel full is dropped
TickerFire ==
    /\ Running
    /\ ~tickerC
    /\ tickerC' = TRUE
    /\ event' = NoEvent
    /\ UNCHANGED <<open, polling, registeredPins, pollerPins, tickerD, loops,
                   detect, callerPc, call, status, config>>
    /\ progress' = Track(progress, event')
    /\ UNCHANGED inflight
    /\ lastOp' = LastReturned(event')
    /\ UNCHANGED <<timer, sinceReset>>

\* a callback started by `go registration.callback(registration.edge)`
\* returns; nothing waits for it.  At MaxInflight the count may stand for
\* more, so it may stay.
CallbackReturn ==
    /\ Running
    /\ inflight > 0
    /\ inflight' \in (IF inflight = MaxInflight THEN {inflight, inflight - 1}
                                               ELSE {inflight - 1})
    /\ event' = NoEvent
    /\ UNCHANGED <<open, polling, registeredPins, pollerPins, tickerD, tickerC,
                   loops, detect, callerPc, call, status, config>>
    /\ progress' = Track(progress, event')
    /\ lastOp' = LastReturned(event')
    /\ UNCHANGED <<timer, sinceReset>>

Next ==
    \/ Start
    \/ Poll
    \/ StopPolling
    \/ Stop
    \/ StopPollingSent
    \/ \E pin \in Pins, r \in Registrations : RegisterEdgeDetection(pin, r[1], r[2])
    \/ RegisterEdgeDetectionSent
    \/ \E pin \in Pins : RemoveEdgeDetectionRegistration(pin)
    \/ RemoveEdgeDetectionRegistrationSent
    \/ \E d \in Durations : UpdatePollFreq(d)
    \/ UpdatePollFreqSent
    \/ \E i \in LoopIds, detected \in SUBSET Pins : pollTick(i, detected)
    \/ \E i \in LoopIds : pollRecvNewPin(i)
    \/ \E i \in LoopIds : pollNewPin(i)
    \/ \E i \in LoopIds : pollRecvRemovePin(i)
    \/ \E i \in LoopIds : pollRemovePin(i)
    \/ \E i \in LoopIds : pollRecvNewPollFreq(i)
    \/ \E i \in LoopIds : pollNewPollFreq(i)
    \/ \E i \in LoopIds : pollStop(i)
    \/ TickerFire
    \/ CallbackReturn

Spec == Init /\ [][Next]_vars

\* ---- the ticker with time ------------------------------------------------
\* one unit of time (100ms) passes; the runtime fires the timer when it is
\* due, so time does not pass beyond the period without TimerExpire
Tock ==
    /\ Running
    /\ timer < tickerD
    /\ timer' = timer + 1
    /\ sinceReset' = IF sinceReset < tickerD THEN sinceReset + 1 ELSE sinceReset
    /\ event' = NoEvent
    /\ UNCHANGED <<open, polling, registeredPins, pollerPins, tickerD, tickerC, loops,
                   detect, callerPc, call, status, config>>
    /\ progress' = Track(progress, event')
    /\ UNCHANGED inflight
    /\ lastOp' = LastReturned(event')

\* the period has elapsed: the runtime timer puts a tick in ticker.C (a tick
\* that finds the channel full is dropped) and starts the next period
TimerExpire ==
    /\ Running
    /\ timer = tickerD
    /\ timer' = 0
    /\ tickerC' = TRUE
    /\ event' = NoEvent
    /\ UNCHANGED <<open, polling, registeredPins, pollerPins, tickerD, loops,
                   detect, callerPc, call, status, config, sinceReset>>
    /\ progress' = Track(progress, event')
    /\ UNCHANGED inflight
    /\ lastOp' = LastReturned(event')

\* the program with TickerFire replaced by the timed ticker
NextTimed ==
    \/ Start
    \/ Poll
    \/ StopPolling
    \/ Stop
    \/ StopPollingSent
    \/ \E pin \in Pins, r \in Registrations : RegisterEdgeDetection(pin, r[1], r[2])
    \/ RegisterEdgeDetectionSent
    \/ \E pin \in Pins : RemoveEdgeDetectionRegistration(pin)
    \/ RemoveEdgeDetectionRegistrationSent
    \/ \E d \in Durations : UpdatePollFreq(d)
    \/ UpdatePollFreqSent
    \/ \E i \in LoopIds, detected \in SUBSET Pins : pollTick(i, detected)
    \/ \E i \in LoopIds : pollRecvNewPin(i)
    \/ \E i \in LoopIds : pollNewPin(i)
    \/ \E i \in LoopIds : pollRecvRemovePin(i)
    \/ \E i \in LoopIds : pollRemovePin(i)
    \/ \E i \in LoopIds : pollRecvNewPollFreq(i)
    \/ \E i \in LoopIds : pollNewPollFreq(i)
    \/ \E i \in LoopIds : pollStop(i)
    \/ CallbackReturn
    \/ Tock
    \/ TimerExpire

TimedSpec == Init /\ [][NextTimed]_vars

\* Scheduling: a goroutine that can run does run, and a select with a ready
\* case takes one, chosen at random among the ready ones.  The caller is not
\* obliged to make calls, the timer is not obliged to fire.
Fairness ==
    /\ WF_vars(StopPollingSent)
    /\ WF_vars(RegisterEdgeDetectionSent)
    /\ WF_vars(RemoveEdgeDetectionRegistrationSent)
    /\ WF_vars(UpdatePollFreqSent)
    /\ \A i \in LoopIds :
          /\ WF_vars(pollRecvNewPin(i))
          /\ WF_vars(pollNewPin(i))
          /\ WF_vars(pollRecvRemovePin(i))
          /\ WF_vars(pollRemovePin(i))
          /\ WF_vars(pollRecvNewPollFreq(i))
          /\ WF_vars(pollNewPollFreq(i))
          /\ WF_vars(pollStop(i))

FairSpec == Spec /\ Fairness

TypeOK ==
    /\ open \in BOOLEAN
    /\ polling \in BOOLEAN
    /\ registeredPins \subseteq Pins
    /\ tickerD \in Durations \cup {DefaultPollFreq}
    /\ tickerC \in BOOLEAN
    /\ timer \in 0..tickerD
    /\ sinceReset \in 0..tickerD

\* ---- properties ------------------------------------------------------------
\* the caller is blocked in a channel send
Sending == callerPc \in {"send_stop", "send_newPin", "send_removePin", "send_newPollFreq"}

Returned(op) == event.type = "return" /\ event.op = op

\* C1: no controller call is ever blocked on a send while no poll goroutine
\* is running (every sending call is guarded by the polling flag).
C1_NoSendWithoutLoop ==
    Sending => Alive # {}

\* C2: polling implies open, in every reachable state.
C2_PollingImpliesOpen ==
    polling => open

\* C3: a RegisterEdgeDetection(L) made while open and polling, after a
\* RegisterEdgeDetection(L) succeeded and no RemoveEdgeDetectionRegistration(L)
\* succeeded since, returns the already-registered error.
C3_SecondRegistrationRejected ==
    (Returned("RegisterEdgeDetection") /\ event.wasOpen /\ event.wasPolling
        /\ event.wasStatus = "registered")
    => event.err = ErrAlreadyRegistered

C3_Witness ==
    /\ Returned("RegisterEdgeDetection")
    /\ event.wasOpen /\ event.wasPolling
    /\ event.wasStatus = "registered"
    /\ event.err = ErrAlreadyRegistered
    /\ \E q \in Pins \ {event.pin} : status[q] = "removed"

\* C4: a RemoveEdgeDetectionRegistration(L) made while open and polling, with
\* L never successfully registered or successfully removed since its last
\* successful registration, returns the not-registered error.
C4_RemoveWithoutRegistrationRejected ==
    (Returned("RemoveEdgeDetectionRegistration") /\ event.wasOpen /\ event.wasPolling
        /\ event.wasStatus \in {"never", "removed"})
    => event.err = ErrNotRegistered

C4_Witness ==
    /\ Returned("RemoveEdgeDetectionRegistration")
    /\ event.wasOpen /\ event.wasPolling
    /\ event.wasStatus = "removed"
    /\ event.err = ErrNotRegistered

\* C5: in every tick, each pin whose registration has returned success and
\* has not been removed since gets exactly one callback invocation, that of
\* the registered callback with the registered edge, when the hardware
\* reports an edge for it, and none when it does not.
C5_TickDispatchesRegistered ==
    event.type = "tick" =>
        \A p \in Pins : status[p] = "registered" =>
            event.dispatched[p] =
                IF p \in event.detected
                THEN << <<config[p].callback, config[p].edge>> >>
                ELSE << >>

C5_Witness ==
    /\ event.type = "tick"
    /\ \E p \in Pins, q \in Pins :
          /\ status[p] = "registered" /\ p \in event.detected
          /\ event.dispatched[p] = << <<config[p].callback, config[p].edge>> >>
          /\ status[q] = "registered" /\ q \notin event.detected
          /\ event.dispatched[q] = << >>

\* C6: no tick after a successful RemoveEdgeDetectionRegistration(L), and
\* before L is registered again, starts a callback for L, whatever the
\* hardware reports.
C6_NoDispatchAfterRemove ==
    event.type = "tick" =>
        \A p \in Pins : status[p] = "removed" => event.dispatched[p] = << >>

C6_Witness ==
    /\ event.type = "tick"
    /\ \E p \in Pins :
          /\ status[p] = "removed"
          /\ p \in event.detected
          /\ event.dispatched[p] = << >>

\* the step enters controller method op
Calls(op) ==
    \/ event'.type = "return" /\ event'.op = op
    \/ callerPc' # "idle" /\ call'.op = op

\* C7: Start, Poll, StopPolling and Stop called again right after they
\* returned change nothing: the second call returns at once and leaves open,
\* polling, both registries and the poll goroutines as they are.
C7_LifecycleIdempotent ==
    [][\A op \in Lifecycle :
          (Idle /\ lastOp = op /\ Calls(op)) =>
              /\ callerPc' = "idle"
              /\ UNCHANGED <<open, polling, registeredPins, pollerPins, loops>>]_vars

C7_Witness ==
    /\ Returned("Poll")
    /\ event.again
    /\ Cardinality(Alive) = 1

\* C8: between controller calls, polling is true exactly when one poll
\* goroutine is alive, and false exactly when none is.
C8_PollingIffLoopAlive ==
    Idle => Cardinality(Alive) = (IF polling THEN 1 ELSE 0)

C8_Witness ==
    /\ Returned("StopPolling")
    /\ event.wasPolling
    /\ ~polling
    /\ Alive = {}

\* C9: after Stop returns, neither r.registeredPins nor the poller's
\* registeredPins holds an entry.
C9_StopDestroysRegistrations ==
    Returned("Stop") => (registeredPins = {} /\ Keys(pollerPins) = {})

\* the result the order open, polling, registry prescribes
Expected(e) ==
    IF ~e.wasOpen THEN ErrNotOpen
    ELSE IF ~e.wasPolling THEN ErrNotPolling
    ELSE IF e.op = "RegisterEdgeDetection"
         THEN (IF e.wasRegistered THEN ErrAlreadyRegistered ELSE Ok)
         ELSE (IF e.wasRegistered THEN Ok ELSE ErrNotRegistered)

\* C10: RegisterEdgeDetection and RemoveEdgeDetectionRegistration return the
\* not-open error whenever open is false, the not-polling error when open and
\* not polling, the registry error only when open and polling, and nil in the
\* remaining case, where their send finds a poll goroutine to accept it.
C10_CheckOrder ==
    /\ (event.type = "return"
          /\ event.op \in {"RegisterEdgeDetection", "RemoveEdgeDetectionRegistration"})
       => event.err = Expected(event)
    /\ callerPc \in {"send_newPin", "send_removePin"} => Alive # {}

C10_Witness ==
    /\ Returned("RegisterEdgeDetection")
    /\ ~event.wasOpen /\ event.wasPolling /\ event.wasRegistered
    /\ event.err = ErrNotOpen

\* the caller is inside a controller method
InCall == callerPc \notin {"idle", "panic"}

\* the caller is out of the method it was in: it returned, or a hardware
\* failure in rpio.Open or rpio.Close has aborted the process
OutOfCall == callerPc \in {"idle", "panic"}

\* the caller is inside the next call of Scenario
InScenarioCall ==
    /\ InCall
    /\ progress \in 0..(Len(Scenario) - 1)
    /\ [op |-> call.op, pin |-> call.pin, edge |-> call.edge, callback |-> call.callback]
          = Scenario[progress + 1]

\* C11: on a fresh client every call of Start, Poll, Register(L1, Rising,
\* cb1), Remove(L1), StopPolling, Stop returns nil and none blocks forever; a
\* RegisterEdgeDetection made after them, or at any time the device is not
\* open, returns the not-open error.
C11_Scenario ==
    /\ []((event.type = "return" /\ progress \in 1..Len(Scenario)) => event.err = Ok)
    /\ []((event.type = "return" /\ progress = Len(Scenario) + 1) => event.err = ErrNotOpen)
    /\ []((Returned("RegisterEdgeDetection") /\ ~event.wasOpen)
            => event.err = ErrNotOpen)
    /\ InScenarioCall ~> OutOfCall

C11_Witness ==
    /\ progress = Len(Scenario) + 1
    /\ Returned("RegisterEdgeDetection")
    /\ event.err = ErrNotOpen

\* C12: every sending call made while polling is accepted and returns,
\* however often the timer fires, and StopPolling returns with polling false
\* and no poll goroutine left.
C12_SendsReturn ==
    /\ (InCall /\ call.wasPolling) ~> OutOfCall
    /\ [](Returned("StopPolling") => (~polling /\ Alive = {}))

C12_Witness ==
    /\ Returned("StopPolling")
    /\ event.wasPolling
    /\ tickerC
    /\ ~polling
    /\ Alive = {}

\* the stop signal has been accepted and Poll has not been called since
Stopped == ~polling \/ callerPc = "sent_stop"

\* C13: from the acceptance of the stop signal until the next Poll, no tick
\* is handled (no pin sampled, no callback started) and the poller's registry
\* does not change.
C13_NothingAfterStop ==
    [][(Stopped /\ Stopped') => (event'.type # "tick" /\ pollerPins' = pollerPins)]_vars

C13_Witness ==
    /\ Idle
    /\ lastOp = "StopPolling"
    /\ ~polling
    /\ Alive = {}
    /\ tickerC
    /\ Keys(pollerPins) # {}

\* C14: whenever the caller is between calls and no poll goroutine holds a
\* received message it has not applied, r.registeredPins is the key set of
\* the poller's registry.
C14_ShadowSetConsistent ==
    (Idle /\ Alive \subseteq AtSelect) => registeredPins = Keys(pollerPins)

C14_Witness ==
    /\ Idle
    /\ AtSelect # {}
    /\ registeredPins # {}
    /\ registeredPins = Keys(pollerPins)
    /\ \E p \in Pins : status[p] = "removed"
    /\ Returned("Poll")
    /\ ~event.wasPolling
    /\ ~open

\* C15: UpdatePollFreq returns its error without sending when open is
\* false, and otherwise its send finds a poll goroutine that takes the
\* interval.
C15_UpdatePollFreqDelivered ==
    /\ (Returned("UpdatePollFreq") /\ ~event.wasOpen) => event.err = ErrPollingNotStarted
    /\ (Returned("UpdatePollFreq") /\ event.wasOpen) => event.err = Ok
    /\ callerPc = "send_newPollFreq" => \E i \in LoopIds : loops[i].pc # "dead"

\* C16: with callbacks still running, and possibly never returning, a call
\* in progress is still accepted and returns, StopPolling included, and the
\* goroutine that handled a tick is back at its select.
C16_FireAndForget ==
    /\ (InCall /\ call.wasPolling /\ inflight > 0) ~> OutOfCall
    /\ [](event.type = "tick" => Alive \subseteq AtSelect)

C16_Witness ==
    /\ Returned("StopPolling")
    /\ event.wasPolling
    /\ inflight > 0
    /\ Alive = {}

\* C17: every tick the poll goroutine handles comes no sooner than the
\* ticker's period after the ticker was created or last reset by
\* UpdatePollFreq.
C17_NextTickAfterInterval ==
    event.type = "tick" => sinceReset >= tickerD

\* C18: the step in which Stop releases the device is taken with no poll
\* goroutine alive and leaves polling false, and a Stop that found the device
\* open returns with open and polling false and no poll goroutine alive.
C18_StopAfterLoopExit ==
    /\ [][(open /\ ~open') => (Alive = {} /\ Alive' = {} /\ ~polling')]_vars
    /\ []((Returned("Stop") /\ event.wasOpen) => (~open /\ ~polling /\ Alive = {}))

C18_Witness ==
    /\ Returned("Stop")
    /\ event.wasOpen
    /\ event.wasPolling
    /\ ~open
    /\ ~polling
    /\ Alive = {}
    /\ registeredPins # {}

\* C19: at most one poll goroutine is alive in every reachable state, and
\* the poller's registry changes only in a step of a poll goroutine applying
\* a message it received, never in a step of the controller.
C19_SingleWriter ==
    /\ [](Cardinality(Alive) <= 1)
    /\ [][pollerPins' # pollerPins =>
            (callerPc' = callerPc
               /\ \E i \in LoopIds : loops[i].pc \in {"newPin", "removePin"}
                                     /\ loops'[i].pc = "select")]_vars

C19_Witness ==
    /\ Returned("Poll")
    /\ ~event.wasPolling
    /\ open
    /\ Cardinality(Alive) = 1
    /\ \E p \in Pins : status[p] = "registered" /\ pollerPins[p] # NoReg

\* C20: a step in which RegisterEdgeDetection, RemoveEdgeDetectionRegistration
\* or UpdatePollFreq returns an error is the whole call (no send was made) and
\* leaves open, polling, r.registeredPins, the hardware edge modes, the
\* poller's registry, the ticker and the poll goroutines as they were.
C20_ErrorChangesNothing ==
    [][(event'.type = "return" /\ event'.err # Ok) =>
          (/\ callerPc = "idle"
           /\ callerPc' = "idle"
           /\ UNCHANGED <<open, polling, registeredPins, detect, pollerPins,
                          tickerD, tickerC, loops>>)]_vars

C20_Witness ==
    /\ Returned("RegisterEdgeDetection")
    /\ event.err = ErrAlreadyRegistered
    /\ detect[event.pin] # event.edge
    /\ event.pin \in registeredPins

====
